---- MODULE Spec2Model ----
(***************************************************************************)
(* Model of icu4c/source/common/rbbirb.cpp: RBBIRuleBuilder, the compiler  *)
(* of break rules into the flattened RBBI data image.                      *)
(*                                                                         *)
(* One run of RBBIRuleBuilder::createRuleBasedBreakIterator is modelled,   *)
(* statement group by statement group.  pc is the position in the code.    *)
(* The scanner, the set builder and the table builder are not part of the  *)
(* file; their results are inputs drawn from small sets.                   *)
(***************************************************************************)
EXTENDS Integers, Sequences, FiniteSets, TLC

\* ------------------------------------------------------------------ bounds
MaxRuleLen    == 1   \* code units in the rule text
MaxSetNodes   == 0   \* RBBINode leaves the scanner puts in fUSetNodes
MaxStatusVals == 1   \* entries of fRuleStatusVals
MaxStates     == 2   \* DFA states besides the stop state 0
MaxCats       == 2   \* character categories besides the reserved 0, 1, 2
MaxTextLen    == 8   \* code units of a stripped text whose sizes are computed
MaxWords      == 1   \* size of a table or of the trie, in 4-byte words

\* ------------------------------------------------------- status codes
ZERO_ERROR       == "U_ZERO_ERROR"
ILLEGAL_ARGUMENT == "U_ILLEGAL_ARGUMENT_ERROR"
MEMORY_ALLOCATION == "U_MEMORY_ALLOCATION_ERROR"
BRK_RULE_SYNTAX  == "U_BRK_RULE_SYNTAX"
FailureCodes     == {ILLEGAL_ARGUMENT, MEMORY_ALLOCATION, BRK_RULE_SYNTAX}

U_FAILURE(s) == s \in FailureCodes

\* ------------------------------------------------------------ pointers
NULL    == "null"
LIVE    == "live"
DELETED == "deleted"

\* -------------------------------------------------------------- rule text
SPACE  == 32
LETTER == 97
UChars == {SPACE, LETTER}
RuleTexts == UNION {[1..n -> UChars] : n \in 0..MaxRuleLen}

\* RBBIRuleScanner::stripRules: the text without its white space.
IsRuleChar(c) == c # SPACE
stripRules(text) == SelectSeq(text, IsRuleChar)

VARIABLES
    pc,               \* position in the code
    status,           \* the UErrorCode cell shared by the caller and *fStatus
    status0,          \* its value when createRuleBasedBreakIterator was entered
    firstRun,         \* when a stage is run a second time on the same inputs:
                      \* what its first run was given and what it produced
    parseErr,         \* the caller's UParseError: "garbage", then "zeroed"
    rules,            \* the rule text handed in
    fRules,           \* member copy of the text
    fStrippedRules,   \* [bogus, text]
    rb,               \* the pointer members of the builder
    uSetNodes,        \* contents of *fUSetNodes: one pointer state per RBBINode
    ruleStatusVals,   \* contents of *fRuleStatusVals
    numCategories,    \* fSetBuilder's category count
    rangeCat,         \* fSetBuilder's partition: rangeCat[i] is the category of
                      \* the i-th range set found by buildRanges
    dtran,            \* the forward table: dtran[s][c], s = 1.., c = 1.. (category c-1)
    duplPair,         \* optimizeTables: [first, second]
    didSomething,     \* optimizeTables: the changed flag
    sz,               \* flattenData: the locals holding the padded sizes
    data,             \* the blob: [ptr, hdr, bytes, written, zeroed]; written
                      \* holds one [what, off, len] for every store
    This,             \* the RuleBasedBreakIterator: "null", "live", "deleted"
    ret,              \* what createRuleBasedBreakIterator / build returned
    trace,            \* allocations and collaborator calls, in order
    dtor              \* destructor bookkeeping: [runs, i, nullDeref]

vars == <<pc, status, status0, firstRun, parseErr, rules, fRules, fStrippedRules, rb,
          uSetNodes, ruleStatusVals, numCategories, rangeCat, dtran, duplPair,
          didSomething, sz, data, This, ret, trace, dtor>>

textVars  == <<rules, fRules, fStrippedRules>>
optVars   == <<numCategories, rangeCat, dtran, duplPair, didSomething>>
flatVars  == <<sz, data>>

Members == {"fUSetNodes", "fRuleStatusVals", "fScanner", "fSetBuilder",
            "fForwardTable", "fForwardTree", "fReverseTree", "fSafeFwdTree",
            "fSafeRevTree"}
Trees == {"fForwardTree", "fReverseTree", "fSafeFwdTree", "fSafeRevTree"}

NoHdr == [fLength |-> 0, fCatCount |-> 0, fFTable |-> 0, fFTableLen |-> 0,
          fRTable |-> 0, fRTableLen |-> 0, fTrie |-> 0, fTrieLen |-> 0,
          fStatusTable |-> 0, fStatusTableLen |-> 0, fRuleSource |-> 0,
          fRuleSourceLen |-> 0]
NoData == [ptr |-> NULL, hdr |-> NoHdr, bytes |-> << >>, written |-> {},
           zeroed |-> FALSE]
NoSz   == [headerSize |-> 0, forwardTableSize |-> 0, reverseTableSize |-> 0,
           trieSize |-> 0, statusTableSize |-> 0, rulesSize |-> 0,
           totalSize |-> 0, tableLen |-> 0, safeLen |-> 0, trieLen |-> 0]

\* No stage was run a second time.
NoFirst == [of |-> "none", before |-> << >>, after |-> << >>]

Event(kind, what, arg) ==
    [kind |-> kind, what |-> what, arg |-> arg, failed |-> U_FAILURE(status)]
Log(kind, what)   == trace' = Append(trace, Event(kind, what, << >>))

\* ------------------------------------------------------------------- Init
\* The caller's arguments: a rule text, a UParseError, a status.
Init ==
    /\ pc = "create"
    /\ status0 \in {ZERO_ERROR, ILLEGAL_ARGUMENT, BRK_RULE_SYNTAX}
    /\ status = status0
    /\ firstRun = NoFirst
    /\ parseErr = "garbage"
    /\ rules \in RuleTexts
    /\ fRules = << >>
    /\ fStrippedRules = [bogus |-> FALSE, text |-> << >>]
    /\ rb = [m \in Members |-> "unset"]
    /\ uSetNodes = << >>
    /\ ruleStatusVals = << >>
    /\ numCategories = 0
    /\ rangeCat = << >>
    /\ dtran = << >>
    /\ duplPair = [first |-> 0, second |-> 0]
    /\ didSomething = FALSE
    /\ sz = NoSz
    /\ data = NoData
    /\ This = "unset"
    /\ ret = [build |-> "none", create |-> "none"]
    /\ trace = << >>
    /\ dtor = [runs |-> 0, i |-> 0, nullDeref |-> FALSE]

\* ------------------------------------------------------------ constructor
\* A constructor that goes on to allocate whatever the status is.
CtorNeverReturnsEarly(s) == FALSE

\* rbbirb.cpp 77: the constructor returns before allocating anything.
CtorReturnsEarly(s) == U_FAILURE(s)

\* rbbirb.cpp 47-79: member initialisation, memset of parseErr, status check.
CtorInit ==
    /\ pc = "create"
    /\ fRules' = rules
    /\ fStrippedRules' = [bogus |-> FALSE, text |-> rules]
    /\ rb' = [m \in Members |-> NULL]
    /\ parseErr' = IF parseErr # NULL THEN "zeroed" ELSE parseErr
    /\ pc' = IF CtorReturnsEarly(status) THEN "ctorDone" ELSE "newUSetNodes"
    /\ UNCHANGED <<status, status0, firstRun, rules, uSetNodes, ruleStatusVals, optVars,
                   flatVars, This, ret, trace, dtor>>

\* new UVector(status): UMemory's operator new yields NULL when out of memory;
\* the UVector constructor sets status when it cannot allocate its elements.
NewUVector(member, next) ==
    /\ \E outcome \in {"ok", "null", "ctorFails"} :
        /\ rb' = [rb EXCEPT ![member] = IF outcome = "null" THEN NULL ELSE LIVE]
        /\ status' = IF outcome = "ctorFails" /\ ~U_FAILURE(status)
                     THEN MEMORY_ALLOCATION ELSE status
    /\ Log("alloc", member)
    /\ pc' = next
    /\ UNCHANGED <<status0, firstRun, parseErr, textVars, uSetNodes, ruleStatusVals,
                   optVars, flatVars, This, ret, dtor>>

\* rbbirb.cpp 81
CtorNewUSetNodes ==
    /\ pc = "newUSetNodes"
    /\ NewUVector("fUSetNodes", "newRuleStatusVals")

\* rbbirb.cpp 82
CtorNewRuleStatusVals ==
    /\ pc = "newRuleStatusVals"
    /\ NewUVector("fRuleStatusVals", "newScanner")

\* new RBBIRuleScanner(this) / new RBBISetBuilder(this): NULL when out of
\* memory; the scanner's constructor may set *fStatus.
NewCollaborator(member, next, mayFail) ==
    /\ \E outcome \in {"ok", "null"} \cup (IF mayFail THEN {"ctorFails"} ELSE {}) :
        /\ rb' = [rb EXCEPT ![member] = IF outcome = "null" THEN NULL ELSE LIVE]
        /\ status' = IF outcome = "ctorFails" /\ ~U_FAILURE(status)
                     THEN MEMORY_ALLOCATION ELSE status
    /\ Log("alloc", member)
    /\ pc' = next
    /\ UNCHANGED <<status0, firstRun, parseErr, textVars, uSetNodes, ruleStatusVals,
                   optVars, flatVars, This, ret, dtor>>

\* rbbirb.cpp 83
CtorNewScanner ==
    /\ pc = "newScanner"
    /\ NewCollaborator("fScanner", "newSetBuilder", TRUE)

\* rbbirb.cpp 84
CtorNewSetBuilder ==
    /\ pc = "newSetBuilder"
    /\ NewCollaborator("fSetBuilder", "ctorCheck", FALSE)

\* rbbirb.cpp 88: one of the four members is null.
CtorMemberNull ==
    \/ rb.fSetBuilder = NULL
    \/ rb.fScanner = NULL
    \/ rb.fUSetNodes = NULL
    \/ rb.fRuleStatusVals = NULL

\* rbbirb.cpp 85-90
CtorCheck ==
    /\ pc = "ctorCheck"
    /\ status' = IF ~U_FAILURE(status) /\ CtorMemberNull
                 THEN MEMORY_ALLOCATION ELSE status
    /\ pc' = "ctorDone"
    /\ UNCHANGED <<status0, firstRun, parseErr, textVars, rb, uSetNodes, ruleStatusVals,
                   optVars, flatVars, This, ret, trace, dtor>>

\* rbbirb.cpp 225-227: createRuleBasedBreakIterator checks the constructor.
CreateAfterCtor ==
    /\ pc = "ctorDone"
    /\ IF U_FAILURE(status)
       THEN /\ ret' = [ret EXCEPT !.create = NULL]
            /\ pc' = "dtor"
       ELSE /\ ret' = ret
            /\ pc' = "build"
    /\ UNCHANGED <<status, status0, firstRun, parseErr, textVars, rb, uSetNodes,
                   ruleStatusVals, optVars, flatVars, This, trace, dtor>>


\* ------------------------------------------------------------------ build
\* What the collaborators hand back.  Every collaborator checks *fStatus on
\* entry and does nothing when it already signals a failure.

\* RBBIRuleScanner::parse: the four trees, the set leaves and the status
\* values on success; a syntax failure otherwise.
ParseResults ==
    {[ok |-> TRUE, nodes |-> n, vals |-> v] :
        n \in 0..MaxSetNodes, v \in 0..MaxStatusVals}
    \cup {[ok |-> FALSE, nodes |-> 0, vals |-> 0]}

\* rbbirb.cpp 252-259
BuildParse ==
    /\ pc = "build"
    /\ IF U_FAILURE(status)
       THEN /\ ret' = [ret EXCEPT !.build = NULL]
            /\ pc' = "buildDone"
            /\ UNCHANGED <<status, rb, uSetNodes, ruleStatusVals, trace>>
       ELSE \E r \in ParseResults :
            /\ Log("call", "parse")
            /\ rb' = [m \in Members |->
                        IF m \in Trees /\ r.ok THEN LIVE ELSE rb[m]]
            /\ uSetNodes' = [i \in 1..r.nodes |-> LIVE]
            /\ ruleStatusVals' = [i \in 1..r.vals |-> i]
            /\ status' = IF r.ok THEN status ELSE BRK_RULE_SYNTAX
            /\ IF r.ok
               THEN pc' = "buildRanges" /\ ret' = ret
               ELSE pc' = "buildDone" /\ ret' = [ret EXCEPT !.build = NULL]
    /\ UNCHANGED <<status0, firstRun, parseErr, textVars, optVars, flatVars, This, dtor>>

\* rbbirb.cpp 267: RBBISetBuilder::buildRanges.  Categories 0, 1, 2 are
\* reserved; every range set found gets a category of its own from 3 on.
BuildRangesUpTo(maxCats) ==
    /\ pc = "buildRanges"
    /\ Log("call", "buildRanges")
    /\ IF U_FAILURE(status)
       THEN UNCHANGED <<status, numCategories, rangeCat>>
       ELSE \E k \in 0..maxCats, ok \in BOOLEAN :
            /\ status' = IF ok THEN status ELSE MEMORY_ALLOCATION
            /\ numCategories' = IF ok THEN 3 + k ELSE numCategories
            /\ rangeCat' = IF ok THEN [i \in 1..k |-> 2 + i] ELSE rangeCat
    /\ pc' = "newTableBuilder"
    /\ UNCHANGED <<status0, firstRun, parseErr, textVars, rb, uSetNodes, ruleStatusVals,
                   dtran, duplPair, didSomething, flatVars, This, ret, dtor>>

BuildRanges == BuildRangesUpTo(MaxCats)

\* rbbirb.cpp 272-276: new RBBITableBuilder(this, &fForwardTree, status).
BuildNewTableBuilder ==
    /\ pc = "newTableBuilder"
    /\ Log("alloc", "fForwardTable")
    /\ \E outcome \in {"ok", "null", "ctorFails"} :
        /\ rb' = [rb EXCEPT !.fForwardTable =
                        IF outcome = "null" THEN NULL ELSE LIVE]
        /\ status' = CASE outcome = "null" -> MEMORY_ALLOCATION
                       [] outcome = "ctorFails" /\ ~U_FAILURE(status)
                            -> MEMORY_ALLOCATION
                       [] OTHER -> status
        /\ IF outcome = "null"
           THEN pc' = "buildDone" /\ ret' = [ret EXCEPT !.build = NULL]
           ELSE pc' = "buildForwardTable" /\ ret' = ret
    /\ UNCHANGED <<status0, firstRun, parseErr, textVars, uSetNodes, ruleStatusVals,
                   optVars, flatVars, This, dtor>>

\* ----------------------------------------------------------------- tables
\* dtran[s+1][c+1] is the transition of state s on category c.  State 0 is
\* the stop state.  The columns a subset construction can produce are drawn
\* from shapes: every state goes to one state v, every state stays where it
\* is, every state goes to its predecessor, every state goes to its
\* successor and the last state v to itself.  A whole compile draws its
\* columns from two of them, which give tables with and without duplicate
\* columns and states.
NumStates(t) == Len(t)
NumCols(t)   == IF Len(t) = 0 THEN 0 ELSE Len(t[1])
Tr(t, s, c)  == t[s + 1][c + 1]

ColumnShapes(n) == {[kind |-> "const", v |-> 0], [kind |-> "pred", v |-> 0]}

\* More columns, for the tables the minimizer is run on by itself.
MinimizerShapes(n) ==
    ColumnShapes(n) \cup {[kind |-> "const", v |-> v] : v \in {n - 1, n}}
                    \cup {[kind |-> "stay", v |-> 0], [kind |-> "succ", v |-> n]}

ShapeAt(shape, s) ==
    CASE s = 0 -> 0
      [] shape.kind = "const" -> shape.v
      [] shape.kind = "stay"  -> s
      [] shape.kind = "succ"  -> IF s < shape.v THEN s + 1 ELSE shape.v
      [] OTHER                -> s - 1

\* The table for n states besides the stop state and the given columns for
\* the categories 3, 4, ...; the reserved columns are empty.
MakeTable(n, shapes) ==
    [s1 \in 1..(n + 1) |->
        [c1 \in 1..(3 + Len(shapes)) |->
            IF c1 <= 3 THEN 0 ELSE ShapeAt(shapes[c1 - 3], s1 - 1)]]

ForwardTables(numCats) ==
    UNION {{MakeTable(n, sh) : sh \in [1..(numCats - 3) -> ColumnShapes(n)]} :
              n \in 1..MaxStates}

MinimizerTables(numCats) ==
    UNION {{MakeTable(n, sh) : sh \in [1..(numCats - 3) -> MinimizerShapes(n)]} :
              n \in 1..(MaxStates + 1)}

\* A build that makes the trie before it minimizes the table.
BuildStagesTrieFirst ==
    <<"buildForwardTable", "buildTrie", "optimizeTables",
      "buildSafeReverseTable", "flattenData">>

\* rbbirb.cpp 278-297: the statements of build that follow the making of the
\* table builder, in the order of the code.
BuildStages ==
    <<"buildForwardTable", "optimizeTables", "buildSafeReverseTable",
      "buildTrie", "flattenData">>

StageAfter(stage) ==
    BuildStages[(CHOOSE i \in 1..Len(BuildStages) : BuildStages[i] = stage) + 1]

\* rbbirb.cpp 278: RBBITableBuilder::buildForwardTable.
BuildForwardTableOf(tables) ==
    /\ pc = "buildForwardTable"
    /\ Log("call", "buildForwardTable")
    /\ IF U_FAILURE(status)
       THEN UNCHANGED <<status, dtran>>
       ELSE \/ /\ dtran' \in tables
               /\ status' = status
            \/ /\ dtran' = dtran
               /\ status' = MEMORY_ALLOCATION
    /\ pc' = StageAfter("buildForwardTable")
    /\ UNCHANGED <<status0, firstRun, parseErr, textVars, rb, uSetNodes, ruleStatusVals,
                   numCategories, rangeCat, duplPair, didSomething, flatVars,
                   This, ret, dtor>>

BuildForwardTable == BuildForwardTableOf(ForwardTables(numCategories))


\* ------------------------------------------------- table builder primitives
\* RBBITableBuilder::findDuplCharClassFrom: the first pair of identical
\* columns, searching the first column from categories->first on and the
\* second column after the first.  A table without states has no duplicates.
ColumnsEqual(t, a, b) ==
    /\ NumStates(t) > 0
    /\ \A s \in 0..(NumStates(t) - 1) : Tr(t, s, a) = Tr(t, s, b)

DuplCharClasses(t, numCols, from) ==
    {p \in (from..(numCols - 2)) \X (0..(numCols - 1)) :
        p[1] < p[2] /\ ColumnsEqual(t, p[1], p[2])}

PairBefore(p, q) == p[1] < q[1] \/ (p[1] = q[1] /\ p[2] <= q[2])

findDuplCharClassFrom(t, numCols, categories) ==
    LET found == DuplCharClasses(t, numCols, categories.first)
    IN  IF found = {}
        THEN [found |-> FALSE, first |-> categories.first, second |-> categories.second]
        ELSE LET p == CHOOSE p \in found : \A q \in found : PairBefore(p, q)
             IN  [found |-> TRUE, first |-> p[1], second |-> p[2]]

\* RBBITableBuilder::removeColumn
DropAt(seq, i) == [j \in 1..(Len(seq) - 1) |-> IF j < i THEN seq[j] ELSE seq[j + 1]]
removeColumn(t, column) == [s1 \in 1..Len(t) |-> DropAt(t[s1], column + 1)]

\* RBBISetBuilder::mergeCategories: the ranges of categories.second join
\* categories.first, the categories above move down by one.
mergeCategories(ranges, categories) ==
    [i \in 1..Len(ranges) |->
        IF ranges[i] = categories.second THEN categories.first
        ELSE IF ranges[i] > categories.second THEN ranges[i] - 1
        ELSE ranges[i]]

\* RBBITableBuilder::removeDuplicateStates: two states are duplicates when
\* on every category they go to the same state or to one of the two.
StatesEqual(t, a, b) ==
    \A c \in 0..(NumCols(t) - 1) :
        \/ Tr(t, a, c) = Tr(t, b, c)
        \/ Tr(t, a, c) \in {a, b} /\ Tr(t, b, c) \in {a, b}

DuplStates(t, from) ==
    {p \in (from..(NumStates(t) - 2)) \X (1..(NumStates(t) - 1)) :
        p[1] < p[2] /\ StatesEqual(t, p[1], p[2])}

removeState(t, keep, dupl) ==
    LET rows == DropAt(t, dupl + 1)
    IN  [s1 \in 1..Len(rows) |->
            [c1 \in 1..Len(rows[s1]) |->
                LET v == rows[s1][c1]
                IN  IF v = dupl THEN keep ELSE IF v > dupl THEN v - 1 ELSE v]]

RECURSIVE removeStatesFrom(_, _, _)
removeStatesFrom(t, from, removed) ==
    LET found == DuplStates(t, from)
    IN  IF found = {}
        THEN [table |-> t, removed |-> removed]
        ELSE LET p == CHOOSE p \in found : \A q \in found : PairBefore(p, q)
             IN  removeStatesFrom(removeState(t, p[1], p[2]), p[1], removed + 1)

removeDuplicateStates(t) == removeStatesFrom(t, 1, 0)

\* --------------------------------------------------------- optimizeTables
\* rbbirb.cpp 312: the search for duplicate columns starts at category 3.
FirstCharClass == 3

\* A search for duplicate columns that starts at category 0.
DuplPairFromZero == [first |-> 0, second |-> 0]

\* rbbirb.cpp 312: IntPair duplPair = {3, 0};
InitialDuplPair == [first |-> FirstCharClass, second |-> 0]

\* An optimizeTables that never leaves its loop.
OptimizeForever(changed) == TRUE

\* An optimizeTables that makes one pass only.
OptimizeOnce(changed) == FALSE

\* rbbirb.cpp 322: } while (didSomething);
OptimizeAgain(changed) == changed

\* A column loop that is an if: it merges one pair and goes on.
ColumnLoopOnce(found) == FALSE

\* rbbirb.cpp 313: while (fForwardTable->findDuplCharClassFrom(&duplPair)).
ColumnLoopAgain(found) == found

\* A removeColumn that is handed the surviving category.
RemovedColumnFirst(pair) == pair.first

\* rbbirb.cpp 315: removeColumn(duplPair.second).
RemovedColumn(pair) == pair.second

\* rbbirb.cpp 306-312: the head of a pass.
OptBeginPass ==
    /\ pc = "optimizeTables"
    /\ didSomething' = FALSE
    /\ duplPair' = InitialDuplPair
    /\ pc' = "optColumns"
    /\ UNCHANGED <<status, status0, firstRun, parseErr, textVars, rb, uSetNodes,
                   ruleStatusVals, numCategories, rangeCat, dtran, flatVars,
                   This, ret, trace, dtor>>

\* rbbirb.cpp 313-317: one test of the inner while and, when a pair is
\* found, its body.
OptColumns ==
    /\ pc = "optColumns"
    /\ LET r    == findDuplCharClassFrom(dtran, numCategories, duplPair)
           pair == [first |-> r.first, second |-> r.second]
       IN  /\ duplPair' = pair
           /\ IF r.found
              THEN /\ rangeCat' = mergeCategories(rangeCat, pair)
                   /\ numCategories' = numCategories - 1
                   /\ dtran' = removeColumn(dtran, RemovedColumn(pair))
                   /\ didSomething' = TRUE
                   /\ trace' = trace \o
                        << Event("call", "findDuplCharClassFrom", << >>),
                           Event("call", "mergeCategories", <<pair.first, pair.second>>),
                           Event("call", "removeColumn", <<RemovedColumn(pair)>>) >>
                   /\ pc' = IF ColumnLoopAgain(r.found) THEN "optColumns"
                            ELSE "optStates"
              ELSE /\ UNCHANGED <<rangeCat, numCategories, dtran, didSomething>>
                   /\ Log("call", "findDuplCharClassFrom")
                   /\ pc' = "optStates"
    /\ UNCHANGED <<status, status0, firstRun, parseErr, textVars, rb, uSetNodes,
                   ruleStatusVals, flatVars, This, ret, dtor>>

\* rbbirb.cpp 319-321: one test of the second while and, when states were
\* removed, its body.
OptStates ==
    /\ pc = "optStates"
    /\ LET r == removeDuplicateStates(dtran)
       IN  /\ dtran' = r.table
           /\ trace' = Append(trace, Event("call", "removeDuplicateStates", <<r.removed>>))
           /\ IF r.removed > 0
              THEN didSomething' = TRUE /\ pc' = "optStates"
              ELSE didSomething' = didSomething /\ pc' = "optPassEnd"
    /\ UNCHANGED <<status, status0, firstRun, parseErr, textVars, rb, uSetNodes,
                   ruleStatusVals, numCategories, rangeCat, duplPair, flatVars,
                   This, ret, dtor>>

\* rbbirb.cpp 322-323
OptEndPass ==
    /\ pc = "optPassEnd"
    /\ pc' = IF OptimizeAgain(didSomething) THEN "optimizeTables"
             ELSE StageAfter("optimizeTables")
    /\ UNCHANGED <<status, status0, firstRun, parseErr, textVars, rb, uSetNodes,
                   ruleStatusVals, optVars, flatVars, This, ret, trace, dtor>>


\* rbbirb.cpp 280: RBBITableBuilder::buildSafeReverseTable(status).
BuildSafeReverseTable ==
    /\ pc = "buildSafeReverseTable"
    /\ Log("call", "buildSafeReverseTable")
    /\ IF U_FAILURE(status)
       THEN status' = status
       ELSE status' \in {status, MEMORY_ALLOCATION}
    /\ pc' = StageAfter("buildSafeReverseTable")
    /\ UNCHANGED <<status0, firstRun, parseErr, textVars, rb, uSetNodes, ruleStatusVals,
                   optVars, flatVars, This, ret, dtor>>

\* rbbirb.cpp 291: RBBISetBuilder::buildTrie.
BuildTrie ==
    /\ pc = "buildTrie"
    /\ Log("call", "buildTrie")
    /\ IF U_FAILURE(status)
       THEN status' = status
       ELSE status' \in {status, MEMORY_ALLOCATION}
    /\ pc' = StageAfter("buildTrie")
    /\ UNCHANGED <<status0, firstRun, parseErr, textVars, rb, uSetNodes, ruleStatusVals,
                   optVars, flatVars, This, ret, dtor>>

\* ------------------------------------------------------------ flattenData
\* A rounding that adds the 7 and forgets the mask.
align8Unmasked(i) == i + 7

\* rbbirb.cpp 133: (i+7) & 0xfffffff8.  Clearing the three low bits of a
\* two's complement int rounds it down to a multiple of 8; the sizes of the
\* model stay far below 2^31, so i+7 does not overflow.
align8(i) == (i + 7) - ((i + 7) % 8)

\* sizeof(RBBIDataHeader): magic, version, length, category count, five
\* (offset, length) pairs and six reserved words, 4 bytes each.
SizeofRBBIDataHeader == 80
SizeofInt32 == 4
SizeofUChar == 2

\* What getTableSize, getSafeTableSize and getTrieSize report.
SectionLens == {SizeofInt32 * w : w \in 1..MaxWords}

GARBAGE  == 170   \* a byte of memory that malloc returned
LEFTOVER == 85    \* a byte of memory that malloc returns another time
TABLE   == 255    \* a byte written by an export

\* rbbirb.cpp 151-161: the padded sizes.
\* Sizes whose rule section has no room for the terminator.
PaddedSizesUnterminated(tableLen, safeLen, trieLen, numVals, textLen) ==
    LET headerSize       == align8(SizeofRBBIDataHeader)
        forwardTableSize == align8(tableLen)
        reverseTableSize == align8(safeLen)
        trieSize         == align8(trieLen)
        statusTableSize  == align8(numVals * SizeofInt32)
        rulesSize        == align8(textLen * SizeofUChar)
    IN  [headerSize |-> headerSize, forwardTableSize |-> forwardTableSize,
         reverseTableSize |-> reverseTableSize, trieSize |-> trieSize,
         statusTableSize |-> statusTableSize, rulesSize |-> rulesSize,
         totalSize |-> headerSize + forwardTableSize + reverseTableSize
                       + statusTableSize + trieSize + rulesSize,
         tableLen |-> tableLen, safeLen |-> safeLen, trieLen |-> trieLen]

\* rbbirb.cpp 151-161
PaddedSizes(tableLen, safeLen, trieLen, numVals, textLen) ==
    LET headerSize       == align8(SizeofRBBIDataHeader)
        forwardTableSize == align8(tableLen)
        reverseTableSize == align8(safeLen)
        trieSize         == align8(trieLen)
        statusTableSize  == align8(numVals * SizeofInt32)
        rulesSize        == align8((textLen + 1) * SizeofUChar)
    IN  [headerSize |-> headerSize, forwardTableSize |-> forwardTableSize,
         reverseTableSize |-> reverseTableSize, trieSize |-> trieSize,
         statusTableSize |-> statusTableSize, rulesSize |-> rulesSize,
         totalSize |-> headerSize + forwardTableSize + reverseTableSize
                       + statusTableSize + trieSize + rulesSize,
         tableLen |-> tableLen, safeLen |-> safeLen, trieLen |-> trieLen]

\* rbbirb.cpp 138-167: status check, stripRules, sizes, uprv_malloc.
\* A UnicodeString that cannot allocate becomes bogus and empty.
FlattenAllocate(byte) ==
    /\ pc = "flattenData"
    /\ IF U_FAILURE(status)
       THEN /\ pc' = "buildReturn"
            /\ UNCHANGED <<status, fStrippedRules, sz, data, trace>>
       ELSE \E bogus \in BOOLEAN, tl \in SectionLens, sl \in SectionLens,
               trl \in SectionLens, got \in BOOLEAN :
            LET text == IF bogus THEN << >> ELSE stripRules(fStrippedRules.text)
                s    == PaddedSizes(tl, sl, trl, Len(ruleStatusVals), Len(text))
            IN  /\ fStrippedRules' = [bogus |-> bogus, text |-> text]
                /\ sz' = s
                /\ trace' = trace \o << Event("call", "stripRules", << >>),
                                        Event("alloc", "data", <<s.totalSize>>) >>
                /\ IF got
                   THEN /\ data' = [NoData EXCEPT !.ptr = LIVE,
                                       !.bytes = [i \in 1..s.totalSize |-> byte]]
                        /\ status' = status
                        /\ pc' = "flattenMemset"
                   ELSE /\ data' = NoData
                        /\ status' = MEMORY_ALLOCATION
                        /\ pc' = "buildReturn"
    /\ UNCHANGED <<status0, firstRun, parseErr, rules, fRules, rb, uSetNodes,
                   ruleStatusVals, optVars, This, ret, dtor>>

FlattenAlloc == FlattenAllocate(GARBAGE)

\* A memset that clears the header and leaves the sections as they were.
memsetHeader(bytes, value, n) ==
    [i \in 1..Len(bytes) |-> IF i <= SizeofRBBIDataHeader THEN value ELSE bytes[i]]

\* A memset that leaves the buffer as malloc returned it.
memsetNothing(bytes, value, n) == bytes

\* uprv_memset(p, value, n) on the first n bytes of a buffer.
memset(bytes, value, n) ==
    [i \in 1..Len(bytes) |-> IF i <= n THEN value ELSE bytes[i]]

\* rbbirb.cpp 168: uprv_memset(data, 0, totalSize).
FlattenMemset ==
    /\ pc = "flattenMemset"
    /\ LET cleared == memset(data.bytes, 0, sz.totalSize)
       IN  data' = [data EXCEPT !.bytes = cleared,
                                !.zeroed = \A i \in 1..Len(cleared) : cleared[i] = 0]
    /\ pc' = "flattenHeader"
    /\ UNCHANGED <<status, status0, firstRun, parseErr, textVars, rb, uSetNodes,
                   ruleStatusVals, optVars, sz, This, ret, trace, dtor>>

\* A header that records the number of range sets buildRanges found, as if
\* no category had been merged since.
HeaderCatCountUnmerged(s, catCount, textLen) ==
    LET fRTable      == s.headerSize + s.forwardTableSize
        fTrie        == fRTable + s.reverseTableSize
        fStatusTable == fTrie + s.trieSize
    IN  [fLength |-> s.totalSize, fCatCount |-> 3 + Len(rangeCat),
         fFTable |-> s.headerSize, fFTableLen |-> s.forwardTableSize,
         fRTable |-> fRTable, fRTableLen |-> s.reverseTableSize,
         fTrie |-> fTrie, fTrieLen |-> s.trieLen,
         fStatusTable |-> fStatusTable, fStatusTableLen |-> s.statusTableSize,
         fRuleSource |-> fStatusTable + s.statusTableSize,
         fRuleSourceLen |-> textLen * 2]

\* A header whose status table starts at the unpadded end of the trie.
HeaderTrieUnpadded(s, catCount, textLen) ==
    LET fFTable         == s.headerSize
        fRTable         == fFTable + s.forwardTableSize
        fTrie           == fRTable + s.reverseTableSize
        fStatusTable    == fTrie + s.trieLen
        fRuleSource     == fStatusTable + s.statusTableSize
    IN  [fLength |-> s.totalSize, fCatCount |-> catCount,
         fFTable |-> fFTable, fFTableLen |-> s.forwardTableSize,
         fRTable |-> fRTable, fRTableLen |-> s.reverseTableSize,
         fTrie |-> fTrie, fTrieLen |-> s.trieLen,
         fStatusTable |-> fStatusTable, fStatusTableLen |-> s.statusTableSize,
         fRuleSource |-> fRuleSource, fRuleSourceLen |-> textLen * 2]

\* rbbirb.cpp 176-190: the header fields, each from the ones before it.
Header(s, catCount, textLen) ==
    LET fFTable         == s.headerSize
        fFTableLen      == s.forwardTableSize
        fRTable         == fFTable + fFTableLen
        fRTableLen      == s.reverseTableSize
        fTrie           == fRTable + fRTableLen
        fTrieLen        == s.trieLen
        fStatusTable    == fTrie + s.trieSize
        fStatusTableLen == s.statusTableSize
        fRuleSource     == fStatusTable + s.statusTableSize
        fRuleSourceLen  == textLen * SizeofUChar
    IN  [fLength |-> s.totalSize, fCatCount |-> catCount,
         fFTable |-> fFTable, fFTableLen |-> fFTableLen,
         fRTable |-> fRTable, fRTableLen |-> fRTableLen,
         fTrie |-> fTrie, fTrieLen |-> fTrieLen,
         fStatusTable |-> fStatusTable, fStatusTableLen |-> fStatusTableLen,
         fRuleSource |-> fRuleSource, fRuleSourceLen |-> fRuleSourceLen]

\* The blob after the bytes of seq are stored from offset off on.  The
\* fields of the header are kept in data.hdr; their bytes are not encoded.
Store(d, what, off, seq) ==
    [d EXCEPT !.bytes = [i \in 1..Len(d.bytes) |->
                            IF i - 1 >= off /\ i - 1 < off + Len(seq)
                            THEN seq[i - off] ELSE d.bytes[i]],
              !.written = d.written
                          \cup {[what |-> what, off |-> off, len |-> Len(seq)]}]

Touch(d, what, off, n) ==
    [d EXCEPT !.written = d.written \cup {[what |-> what, off |-> off, len |-> n]}]

\* rbbirb.cpp 171-192
FlattenHeader ==
    /\ pc = "flattenHeader"
    /\ data' = [Touch(data, "header", 0, SizeofRBBIDataHeader) EXCEPT
                   !.hdr = Header(sz, numCategories, Len(fStrippedRules.text))]
    /\ pc' = "flattenExport"
    /\ UNCHANGED <<status, status0, firstRun, parseErr, textVars, rb, uSetNodes,
                   ruleStatusVals, optVars, sz, This, ret, trace, dtor>>

Fill(n, b) == [i \in 1..n |-> b]

\* A 32-bit value and a UChar as bytes, low byte first.
RECURSIVE Int32Bytes(_)
Int32Bytes(vals) ==
    IF vals = << >> THEN << >>
    ELSE LET v == Head(vals)
         IN  << v % 256, (v \div 256) % 256, (v \div 65536) % 256,
                (v \div 16777216) % 256 >> \o Int32Bytes(Tail(vals))

RECURSIVE UCharBytes(_)
UCharBytes(text) ==
    IF text = << >> THEN << >>
    ELSE << Head(text) % 256, Head(text) \div 256 >> \o UCharBytes(Tail(text))

\* rbbirb.cpp 194-201: the two tables, the trie and the status values.
FlattenExport ==
    /\ pc = "flattenExport"
    /\ LET h  == data.hdr
           d1 == Store(data, "fFTable", h.fFTable, Fill(sz.tableLen, TABLE))
           d2 == Store(d1, "fRTable", h.fRTable, Fill(sz.safeLen, TABLE))
           d3 == Store(d2, "fTrie", h.fTrie, Fill(sz.trieLen, TABLE))
           d4 == Store(d3, "fStatusTable", h.fStatusTable,
                       Int32Bytes(ruleStatusVals))
       IN  data' = d4
    /\ trace' = trace \o << Event("call", "exportTable", << >>),
                            Event("call", "exportSafeTable", << >>),
                            Event("call", "serializeTrie", << >>) >>
    /\ pc' = "flattenExtract"
    /\ UNCHANGED <<status, status0, firstRun, parseErr, textVars, rb, uSetNodes,
                   ruleStatusVals, optVars, sz, This, ret, dtor>>

\* UnicodeString::extract(dest, destCapacity, errorCode): a bogus string is
\* an illegal argument; otherwise the text is copied and, when there is
\* room, terminated.
ExtractCapacity(s) == s.rulesSize \div 2 + 1

\* rbbirb.cpp 203-205
FlattenExtract ==
    /\ pc = "flattenExtract"
    /\ LET text == fStrippedRules.text
           cap  == ExtractCapacity(sz)
       IN  IF fStrippedRules.bogus
           THEN /\ status' = ILLEGAL_ARGUMENT
                /\ data' = data
           ELSE /\ status' = status
                /\ data' = Store(data, "fRuleSource", data.hdr.fRuleSource,
                                 IF Len(text) < cap
                                 THEN UCharBytes(text) \o <<0, 0>>
                                 ELSE UCharBytes(SubSeq(text, 1, cap)))
    /\ Log("call", "extract")
    /\ pc' = "buildReturn"
    /\ UNCHANGED <<status0, firstRun, parseErr, textVars, rb, uSetNodes, ruleStatusVals,
                   optVars, sz, This, ret, dtor>>

\* A build that hands the blob back whatever the status is.
BuildResultUnchecked(s, blob) == blob

\* rbbirb.cpp 298-301: build returns the blob unless the status is a failure.
BuildResult(s, blob) == IF U_FAILURE(s) THEN NULL ELSE blob

\* rbbirb.cpp 297-301
BuildReturn ==
    /\ pc = "buildReturn"
    /\ ret' = [ret EXCEPT !.build = BuildResult(status, data.ptr)]
    /\ pc' = "buildDone"
    /\ UNCHANGED <<status, status0, firstRun, parseErr, textVars, rb, uSetNodes,
                   ruleStatusVals, optVars, flatVars, This, trace, dtor>>


\* ------------------------------------------ createRuleBasedBreakIterator
\* rbbirb.cpp 231-233
CreateAfterBuild ==
    /\ pc = "buildDone"
    /\ IF U_FAILURE(status)
       THEN /\ ret' = [ret EXCEPT !.create = NULL]
            /\ pc' = "dtor"
       ELSE /\ ret' = ret
            /\ pc' = "newMatcher"
    /\ UNCHANGED <<status, status0, firstRun, parseErr, textVars, rb, uSetNodes,
                   ruleStatusVals, optVars, flatVars, This, trace, dtor>>

\* rbbirb.cpp 245-246: a null matcher with a success status.
StatusAfterMatcher(s, made) ==
    IF ~U_FAILURE(s) /\ made = NULL THEN MEMORY_ALLOCATION ELSE s

\* rbbirb.cpp 241-244, 248: a matcher whose constructor failed is deleted
\* and null is returned; delete of a null matcher is a no-op.
MatcherAfterCheck(s, made) ==
    IF U_FAILURE(s) /\ made = LIVE THEN DELETED ELSE made

MatcherReturned(s, made) == IF U_FAILURE(s) THEN NULL ELSE made

\* rbbirb.cpp 240-248: new RuleBasedBreakIterator(data, status).  operator
\* new yields a matcher or null; the constructor of a matcher takes the
\* blob over and leaves the status alone or sets it to a failure.  The call
\* records what new yielded and what the constructor set.
CreateMatcher ==
    /\ pc = "newMatcher"
    /\ \E made \in {LIVE, NULL},
          set \in {ZERO_ERROR, ILLEGAL_ARGUMENT, MEMORY_ALLOCATION} :
        /\ made = NULL => set = ZERO_ERROR
        /\ LET s == IF set = ZERO_ERROR THEN status ELSE set
           IN  /\ This' = MatcherAfterCheck(s, made)
               /\ status' = StatusAfterMatcher(s, made)
               /\ ret' = [ret EXCEPT !.create = MatcherReturned(s, made)]
        /\ data' = IF made = NULL THEN data
                   ELSE [data EXCEPT !.ptr = "adopted"]
        /\ trace' = Append(trace, Event("alloc", "This", <<made, set>>))
    /\ pc' = "dtor"
    /\ UNCHANGED <<status0, firstRun, parseErr, textVars, rb, uSetNodes, ruleStatusVals,
                   optVars, sz, dtor>>

\* ------------------------------------------------------------- destructor
\* rbbirb.cpp 104: fUSetNodes->elementAt(i) reads through fUSetNodes.
DtorDereferencesNull == rb.fUSetNodes = NULL

\* rbbirb.cpp 103-109: one turn of the loop over fUSetNodes.  elementAt
\* yields NULL past the end.  Reading through a null fUSetNodes is undefined:
\* the process faults, or the read yields something and the loop goes on as
\* for an empty vector.
DtorLoop ==
    /\ pc = "dtor"
    /\ IF DtorDereferencesNull
       THEN /\ dtor' = [dtor EXCEPT !.nullDeref = TRUE]
            /\ pc' \in {"crashed", "dtorDelete"}
            /\ uSetNodes' = uSetNodes
       ELSE IF dtor.i < Len(uSetNodes)
       THEN /\ uSetNodes' = [uSetNodes EXCEPT ![dtor.i + 1] = DELETED]
            /\ dtor' = [dtor EXCEPT !.i = dtor.i + 1]
            /\ pc' = "dtor"
       ELSE /\ uSetNodes' = uSetNodes
            /\ dtor' = dtor
            /\ pc' = "dtorDelete"
    /\ UNCHANGED <<status, status0, firstRun, parseErr, textVars, rb, ruleStatusVals,
                   optVars, flatVars, This, ret, trace>>

\* rbbirb.cpp 111-119: delete of every owned member; delete of NULL is a no-op.
DtorDelete ==
    /\ pc = "dtorDelete"
    /\ rb' = [m \in Members |-> IF rb[m] = LIVE THEN DELETED ELSE rb[m]]
    /\ dtor' = [dtor EXCEPT !.runs = dtor.runs + 1]
    /\ pc' = "done"
    /\ UNCHANGED <<status, status0, firstRun, parseErr, textVars, uSetNodes,
                   ruleStatusVals, optVars, flatVars, This, ret, trace>>

\* ------------------------------------------------------------------- Next
Next ==
    \/ CtorInit
    \/ CtorNewUSetNodes
    \/ CtorNewRuleStatusVals
    \/ CtorNewScanner
    \/ CtorNewSetBuilder
    \/ CtorCheck
    \/ CreateAfterCtor
    \/ BuildParse
    \/ BuildRanges
    \/ BuildNewTableBuilder
    \/ BuildForwardTable
    \/ OptBeginPass
    \/ OptColumns
    \/ OptStates
    \/ OptEndPass
    \/ BuildSafeReverseTable
    \/ BuildTrie
    \/ FlattenAlloc
    \/ FlattenMemset
    \/ FlattenHeader
    \/ FlattenExport
    \/ FlattenExtract
    \/ BuildReturn
    \/ CreateAfterBuild
    \/ CreateMatcher
    \/ DtorLoop
    \/ DtorDelete

Spec == Init /\ [][Next]_vars


\* ============================================================ properties
Returned == pc \in {"dtor", "dtorDelete", "done", "crashed"}

\* C1: destroying the builder is safe in every state the constructor can
\* leave it in: the destructor dereferences no null member, also when the
\* constructor returned before allocating or an allocation yielded null.
C1_DestructorDereferencesNoNull == ~dtor.nullDeref

\* C2: build and createRuleBasedBreakIterator return null exactly when the
\* status is a failure at the return, and a blob or a matcher exactly when
\* it is a success.
C2_NullIffFailure ==
    /\ pc = "buildDone" => (ret.build = NULL <=> U_FAILURE(status))
    /\ Returned => (ret.create = NULL <=> U_FAILURE(status))

\* C2 witness: build returns null although flattenData had made the blob.
C2_NullAfterBlob ==
    pc = "buildDone" /\ ret.build = NULL /\ data.ptr = LIVE

\* C3: once the status signals a failure, the constructor and build perform
\* no further allocation and invoke no further pipeline stage.
C3_NothingAfterFailure ==
    \A i \in 1..Len(trace) : ~trace[i].failed

\* C4: entered with a failure status, createRuleBasedBreakIterator allocates
\* no intermediate structure, invokes no collaborator and leaves the status
\* as it was.
C4_FailFast ==
    U_FAILURE(status0) =>
        /\ trace = << >>
        /\ \A m \in Members : rb[m] \in {"unset", NULL}
        /\ data.ptr = NULL
        /\ This = "unset"
        /\ status = status0

\* C4 witness: the call has returned null on a status that was set before.
C4_ReturnedOnPresetFailure ==
    U_FAILURE(status0) /\ Returned /\ ret.create = NULL


\* ------------------------------------------------- the flattened blob
\* flattenData has succeeded and its blob is the one build hands back.
BlobMade ==
    /\ pc \in {"buildReturn", "buildDone", "newMatcher"}
    /\ data.ptr = LIVE
    /\ ~U_FAILURE(status)

HeaderWritten == data.ptr = LIVE /\ data.written # {}

\* The least multiple of 8 that is not below n.
RoundUp8(n) == CHOOSE m \in n..(n + 7) : m % 8 = 0

\* The byte lengths of the data of the five sections.
StatusLen == 4 * Len(ruleStatusVals)
TextLen   == 2 * Len(fStrippedRules.text)

\* C5: the header records the unpadded length of each of the five sections.
C5_HeaderLengthsUnpadded ==
    HeaderWritten =>
        /\ data.hdr.fFTableLen = sz.tableLen
        /\ data.hdr.fRTableLen = sz.safeLen
        /\ data.hdr.fTrieLen = sz.trieLen
        /\ data.hdr.fStatusTableLen = StatusLen
        /\ data.hdr.fRuleSourceLen = TextLen

\* C6: the status-table length of a flattened blob is a multiple of 4 and
\* is 4 times the number of entries of the rule-status list.
C6_StatusTableLen ==
    BlobMade =>
        /\ data.hdr.fStatusTableLen % 4 = 0
        /\ data.hdr.fStatusTableLen = 4 * Len(ruleStatusVals)

\* C7: fLength is the aligned header size plus the five aligned section
\* sizes, and no section declares more than its padded region holds.
C7_TotalLength ==
    BlobMade =>
        LET h == data.hdr
        IN  /\ h.fLength = RoundUp8(SizeofRBBIDataHeader) + RoundUp8(sz.tableLen)
                           + RoundUp8(sz.safeLen) + RoundUp8(sz.trieLen)
                           + RoundUp8(StatusLen) + RoundUp8(TextLen + 2)
            /\ h.fLength = Len(data.bytes)
            /\ h.fFTableLen <= h.fRTable - h.fFTable
            /\ h.fRTableLen <= h.fTrie - h.fRTable
            /\ h.fTrieLen <= h.fStatusTable - h.fTrie
            /\ h.fStatusTableLen <= h.fRuleSource - h.fStatusTable
            /\ h.fRuleSourceLen <= h.fLength - h.fRuleSource

\* C7 witness: a blob whose forward table needs padding.
C7_BlobWithPaddedTable ==
    BlobMade /\ pc = "buildDone" /\ sz.tableLen % 8 # 0

\* C8: every section offset is a multiple of 8; the sections follow the
\* header in the order forward table, safe table, trie, status table, rule
\* source, each where the padded region before it ends, the last ending at
\* fLength.
C8_SectionOffsets ==
    BlobMade =>
        LET h == data.hdr
        IN  /\ \A off \in {h.fFTable, h.fRTable, h.fTrie, h.fStatusTable,
                           h.fRuleSource} : off % 8 = 0
            /\ h.fFTable = RoundUp8(SizeofRBBIDataHeader)
            /\ h.fRTable = h.fFTable + RoundUp8(sz.tableLen)
            /\ h.fTrie = h.fRTable + RoundUp8(sz.safeLen)
            /\ h.fStatusTable = h.fTrie + RoundUp8(sz.trieLen)
            /\ h.fRuleSource = h.fStatusTable + RoundUp8(StatusLen)
            /\ h.fLength = h.fRuleSource + RoundUp8(TextLen + 2)

\* C8 witness: a blob whose trie and status table both need padding.
C8_BlobWithPaddedTrie ==
    BlobMade /\ pc = "buildDone" /\ sz.trieLen % 8 # 0 /\ StatusLen % 8 # 0

\* The bytes from offset from up to, not including, offset to are zero.
ZeroBetween(from, to) == \A off \in from..(to - 1) : data.bytes[off + 1] = 0

\* C9: the blob is zero-filled before anything is written to it, and in
\* the blob handed back every byte between the unpadded end of a section
\* and the start of the next one is zero.
C9_ZeroFill ==
    /\ pc = "flattenHeader" => \A i \in 1..sz.totalSize : data.bytes[i] = 0
    /\ HeaderWritten => data.zeroed
    /\ BlobMade =>
        LET h == data.hdr
        IN  /\ ZeroBetween(h.fFTable + sz.tableLen, h.fRTable)
            /\ ZeroBetween(h.fRTable + sz.safeLen, h.fTrie)
            /\ ZeroBetween(h.fTrie + sz.trieLen, h.fStatusTable)
            /\ ZeroBetween(h.fStatusTable + StatusLen, h.fRuleSource)
            /\ ZeroBetween(h.fRuleSource + TextLen, h.fLength)

\* C9 witness: a blob with padding bytes after every table and the trie.
C9_BlobWithPadding ==
    /\ BlobMade /\ pc = "buildDone"
    /\ sz.tableLen % 8 # 0 /\ sz.safeLen % 8 # 0 /\ sz.trieLen % 8 # 0
    /\ fStrippedRules.text # << >>

\* ---------------------------------------------------- optimizeTables
OptimizeReturned == pc = "buildSafeReverseTable"

\* The columns of categories a and b are the same in every state of a
\* table that has states.
SameColumn(a, b) ==
    /\ Len(dtran) > 0
    /\ \A s1 \in 1..Len(dtran) : dtran[s1][a + 1] = dtran[s1][b + 1]

\* States a and b go, on every category, to the same state or to one of
\* the two.
SameState(a, b) ==
    \A c1 \in 1..Len(dtran[a + 1]) :
        \/ dtran[a + 1][c1] = dtran[b + 1][c1]
        \/ {dtran[a + 1][c1], dtran[b + 1][c1]} \subseteq {a, b}

NoDuplicateStates ==
    \A a \in 1..(Len(dtran) - 1), b \in 1..(Len(dtran) - 1) :
        a < b => ~SameState(a, b)

\* C10, as stated: when optimizeTables returns no two distinct categories
\* have identical columns and no two states can be merged.
C10_NoIdenticalColumnsAtAll ==
    OptimizeReturned =>
        /\ \A a \in 0..(numCategories - 1), b \in 0..(numCategories - 1) :
              a < b => ~SameColumn(a, b)
        /\ NoDuplicateStates

\* C10, amended: when optimizeTables returns no two distinct categories
\* from 3 on have identical columns, findDuplCharClassFrom started at 3
\* finds no pair, and removeDuplicateStates would remove no state.
C10_FixedPoint ==
    OptimizeReturned =>
        /\ \A a \in 3..(numCategories - 1), b \in 3..(numCategories - 1) :
              a < b => ~SameColumn(a, b)
        /\ ~findDuplCharClassFrom(dtran, numCategories, InitialDuplPair).found
        /\ NoDuplicateStates
        /\ removeDuplicateStates(dtran).removed = 0

\* C10 witness: optimizeTables returns after it merged categories and
\* removed states.
C10_ReturnedAfterMerges ==
    /\ OptimizeReturned
    /\ \E i \in 1..Len(trace) : trace[i].what = "mergeCategories"
    /\ \E i \in 1..Len(trace) :
          trace[i].what = "removeDuplicateStates" /\ trace[i].arg # <<0>>

\* ------------------------------------- the calls optimizeTables issues
\* The positions in the trace of the mergeCategories calls, of the
\* removeColumn calls and of the removeDuplicateStates calls that removed
\* a state.
MergeCalls  == {i \in 1..Len(trace) : trace[i].what = "mergeCategories"}
RemoveCalls == {i \in 1..Len(trace) : trace[i].what = "removeColumn"}
StateMerges == {i \in 1..Len(trace) :
                   trace[i].what = "removeDuplicateStates" /\ trace[i].arg[1] > 0}

\* unused, {bof}, {eof}
ReservedCategories == {0, 1, 2}

\* C11: in every mergeCategories call and every removeColumn call that
\* optimizeTables issues, in whatever pass, neither the surviving category
\* nor the folded-away category or removed column is one of the reserved
\* categories 0, 1, 2.
C11_ReservedNeverMerged ==
    /\ \A i \in MergeCalls :
          /\ trace[i].arg[1] \notin ReservedCategories
          /\ trace[i].arg[2] \notin ReservedCategories
    /\ \A i \in RemoveCalls : trace[i].arg[1] \notin ReservedCategories

\* C11 witness: a merge and a column removal in a pass after the first,
\* after a state merge made two columns equal.
C11_MergeInLaterPass ==
    \E i \in StateMerges : \E j \in MergeCalls : \E k \in RemoveCalls :
        i < j /\ j < k

\* ------------------------------------------------- the order of build
Calls(what) == {i \in 1..Len(trace) : trace[i].what = what}
CalledOnce(what) == Cardinality(Calls(what)) = 1
CallOf(what) == CHOOSE i \in Calls(what) : TRUE

\* The calls optimizeTables issues and the calls flattenData issues.
OptimizeCalls ==
    Calls("findDuplCharClassFrom") \cup Calls("mergeCategories")
    \cup Calls("removeColumn") \cup Calls("removeDuplicateStates")
FlattenCalls ==
    Calls("stripRules") \cup Calls("data") \cup Calls("exportTable")
    \cup Calls("exportSafeTable") \cup Calls("serializeTrie") \cup Calls("extract")

BuildSucceeded == pc = "buildDone" /\ ~U_FAILURE(status)

\* C12: a successful build ran parse, buildRanges, buildForwardTable,
\* optimizeTables, buildSafeReverseTable, buildTrie and flattenData in this
\* order, each once; and in every run the safe-reverse table is built after
\* the last call of optimizeTables, and no category is merged and no column
\* removed after buildTrie or after the trie was serialized.
C12_StageOrder ==
    /\ BuildSucceeded =>
          /\ \A w \in {"parse", "buildRanges", "buildForwardTable",
                        "buildSafeReverseTable", "buildTrie", "serializeTrie"} :
                CalledOnce(w)
          /\ CallOf("parse") < CallOf("buildRanges")
          /\ CallOf("buildRanges") < CallOf("buildForwardTable")
          /\ OptimizeCalls # {}
          /\ \A i \in OptimizeCalls :
                CallOf("buildForwardTable") < i /\ i < CallOf("buildSafeReverseTable")
          /\ CallOf("buildSafeReverseTable") < CallOf("buildTrie")
          /\ FlattenCalls # {}
          /\ \A i \in FlattenCalls : CallOf("buildTrie") < i
    /\ \A i \in OptimizeCalls :
          \A j \in Calls("buildSafeReverseTable") \cup Calls("buildTrie")
                   \cup Calls("serializeTrie") : i < j

\* C12 witness: a build that succeeded after it merged two categories.
C12_SucceededAfterMerge == BuildSucceeded /\ MergeCalls # {}

\* ------------------------------------------------ the category count
Minimizing ==
    pc \in {"optimizeTables", "optColumns", "optStates", "optPassEnd",
            "buildSafeReverseTable"}

\* The categories buildRanges made: the reserved ones and one for each
\* range set.  Merging renumbers the categories of the range sets; it does
\* not change how many range sets there are.
CategoriesBeforeMinimization == Cardinality(ReservedCategories) + Len(rangeCat)

\* A step that issues a mergeCategories call.
MergeStep == Cardinality(MergeCalls') = Cardinality(MergeCalls) + 1

\* A step issues at most one mergeCategories call; one that does lowers
\* both counts by one, and no other step of the minimization changes them.
MergeLowersBoth ==
    /\ Cardinality(MergeCalls') \in
          {Cardinality(MergeCalls), Cardinality(MergeCalls) + 1}
    /\ MergeStep =>
          (/\ numCategories' = numCategories - 1
           /\ NumCols(dtran') = NumCols(dtran) - 1)
    /\ (~MergeStep /\ Minimizing' /\ Minimizing) =>
          (/\ numCategories' = numCategories
           /\ NumCols(dtran') = NumCols(dtran))

\* C13: every column merge of optimizeTables lowers the category count and
\* the number of columns of the table by exactly one each, the two are
\* equal throughout the minimization of a table that was built, and the
\* fCatCount of the header is the category count from before minimization
\* less the number of merges.
C13_CategoryCount ==
    /\ [](Minimizing /\ ~U_FAILURE(status) => NumCols(dtran) = numCategories)
    /\ [](Cardinality(RemoveCalls) = Cardinality(MergeCalls))
    /\ [](HeaderWritten =>
            data.hdr.fCatCount
                = CategoriesBeforeMinimization - Cardinality(MergeCalls))
    /\ [][MergeLowersBoth]_vars

\* C13 witness: a header written after two categories were merged.
C13_HeaderAfterMerge == HeaderWritten /\ BlobMade /\ MergeCalls # {}

\* ------------------------------------------ the same inputs a second time
\* optimizeTables and flattenData are each called a second time on what
\* they were given the first time: the same builder members and the same
\* answers of the collaborators.  What the code does not set is not the
\* same: the locals hold what the first call left in them and malloc
\* returns memory with other contents.

\* The calls of a run in which the constructor, parse, buildRanges and
\* buildForwardTable succeed.
CallsBeforeOptimize ==
    LET made == << <<"alloc", "fUSetNodes">>, <<"alloc", "fRuleStatusVals">>,
                   <<"alloc", "fScanner">>, <<"alloc", "fSetBuilder">>,
                   <<"call", "parse">>, <<"call", "buildRanges">>,
                   <<"alloc", "fForwardTable">>, <<"call", "buildForwardTable">> >>
    IN  [i \in 1..Len(made) |->
            [kind |-> made[i][1], what |-> made[i][2], arg |-> << >>,
             failed |-> FALSE]]

\* What optimizeTables works on and what it leaves behind.
Minimized ==
    [dtran |-> dtran, numCategories |-> numCategories, rangeCat |-> rangeCat,
     trace |-> trace]

\* What flattenData leaves behind.
Flattened ==
    [status |-> status, fStrippedRules |-> fStrippedRules, sz |-> sz,
     data |-> data, trace |-> trace]

\* build has made the forward table and is about to call optimizeTables.
\* The rules either have sets, and so categories of their own, or text and
\* status values that flattenData will store.
InitTwice ==
    /\ pc = "optimizeTables"
    /\ status0 = ZERO_ERROR
    /\ status = ZERO_ERROR
    /\ parseErr = "zeroed"
    /\ rules \in RuleTexts
    /\ fRules = rules
    /\ fStrippedRules = [bogus |-> FALSE, text |-> rules]
    /\ rb = [m \in Members |-> LIVE]
    /\ uSetNodes = << >>
    /\ \E v \in 0..MaxStatusVals, k \in 0..MaxCats :
          /\ k = 0 \/ (v = 0 /\ rules = << >>)
          /\ ruleStatusVals = [i \in 1..v |-> i]
          /\ numCategories = 3 + k
          /\ rangeCat = [i \in 1..k |-> 2 + i]
          /\ dtran \in ForwardTables(3 + k)
    /\ duplPair = [first |-> 0, second |-> 0]
    /\ didSomething = FALSE
    /\ sz = NoSz
    /\ data = NoData
    /\ This = "unset"
    /\ ret = [build |-> "none", create |-> "none"]
    /\ trace = CallsBeforeOptimize
    /\ dtor = [runs |-> 0, i |-> 0, nullDeref |-> FALSE]
    /\ firstRun = [of |-> "none", before |-> Minimized, after |-> << >>]

\* optimizeTables has returned and is called again on the table and the
\* categories its first call was given.  didSomething and duplPair are
\* locals: they hold what is on the stack.
SecondOptimize ==
    /\ pc = StageAfter("optimizeTables")
    /\ firstRun.of = "none"
    /\ firstRun' = [firstRun EXCEPT !.of = "optimizeTables", !.after = Minimized]
    /\ dtran' = firstRun.before.dtran
    /\ numCategories' = firstRun.before.numCategories
    /\ rangeCat' = firstRun.before.rangeCat
    /\ trace' = firstRun.before.trace
    /\ didSomething' = TRUE
    /\ pc' = "optimizeTables"
    /\ UNCHANGED <<status, status0, parseErr, textVars, rb, uSetNodes,
                   ruleStatusVals, duplPair, flatVars, This, ret, dtor>>

\* build goes on after the second call.
TwiceSafeReverse ==
    /\ firstRun.of = "optimizeTables"
    /\ BuildSafeReverseTable

\* flattenData is called with the sizes, the stripped text and the malloc
\* result of its first call; the memory malloc returns is not the same.
TwiceFlattenAlloc ==
    /\ FlattenAllocate(IF firstRun.of = "flattenData" THEN LEFTOVER ELSE GARBAGE)
    /\ (firstRun.of = "flattenData" /\ ~U_FAILURE(status)) =>
          (/\ sz'.tableLen = firstRun.after.sz.tableLen
           /\ sz'.safeLen = firstRun.after.sz.safeLen
           /\ sz'.trieLen = firstRun.after.sz.trieLen
           /\ fStrippedRules' = firstRun.after.fStrippedRules
           /\ data'.ptr = firstRun.after.data.ptr)

\* flattenData has returned and is called again in the state its first
\* call was entered in.
SecondFlatten ==
    /\ pc = "buildReturn"
    /\ firstRun.of = "optimizeTables"
    /\ firstRun' = [firstRun EXCEPT !.of = "flattenData", !.after = Flattened]
    /\ status' = IF Calls("stripRules") = {} THEN status ELSE ZERO_ERROR
    /\ fStrippedRules' = [bogus |-> FALSE, text |-> fRules]
    /\ sz' = NoSz
    /\ data' = NoData
    /\ trace' = SubSeq(trace, 1, CallOf("buildTrie"))
    /\ pc' = "flattenData"
    /\ UNCHANGED <<status0, parseErr, rules, fRules, rb, uSetNodes,
                   ruleStatusVals, optVars, This, ret, dtor>>

NextTwice ==
    \/ OptBeginPass
    \/ OptColumns
    \/ OptStates
    \/ OptEndPass
    \/ SecondOptimize
    \/ TwiceSafeReverse
    \/ BuildTrie
    \/ TwiceFlattenAlloc
    \/ FlattenMemset
    \/ FlattenHeader
    \/ FlattenExport
    \/ FlattenExtract
    \/ SecondFlatten

SpecTwice == InitTwice /\ [][NextTwice]_vars

SecondOptimizeReturned ==
    firstRun.of = "optimizeTables" /\ pc = StageAfter("optimizeTables")
SecondFlattenReturned ==
    firstRun.of = "flattenData" /\ pc = "buildReturn"

\* C14: run a second time on the same table and categories, optimizeTables
\* issues the same sequence of category merges, column removals and state
\* merges and leaves the same table; run a second time on the same
\* sections, status values and text, flattenData issues the same calls and
\* leaves the same status and a blob with the same header fields and the
\* same bytes, padding included.
C14_SameCallsSameBlob ==
    /\ SecondOptimizeReturned => Minimized = firstRun.after
    /\ SecondFlattenReturned => Flattened = firstRun.after

\* C14 witness: the second flattenData has returned a blob with padding, of
\* a table that optimizeTables merged categories and states of.
C14_SecondBlobMade ==
    /\ SecondFlattenReturned
    /\ data.ptr = LIVE
    /\ ~U_FAILURE(status)
    /\ sz.tableLen % 8 # 0
    /\ MergeCalls # {}
    /\ StateMerges # {}

\* ------------------------------------------------- a blob and a failure
\* C15: no blob outlives a failed compile: when build or
\* createRuleBasedBreakIterator has returned with a failure status, the
\* blob flattenData allocated has been released or handed on.
C15_NoBlobAfterFailure ==
    (pc = "buildDone" \/ Returned) /\ U_FAILURE(status) => data.ptr # LIVE

\* ------------------------------------------- the direction of a merge
\* C16: every mergeCategories call is handed a pair whose first, surviving
\* category is lower than its second, folded-away one, and the call that
\* follows it is the removeColumn of the second, higher one.
C16_HigherIntoLower ==
    \A i \in MergeCalls :
        /\ trace[i].arg[1] < trace[i].arg[2]
        /\ i + 1 \in RemoveCalls
        /\ trace[i + 1].arg = <<trace[i].arg[2]>>
        /\ trace[i + 1].arg # <<trace[i].arg[1]>>

\* C16 witness: optimizeTables has merged two categories and removed the
\* column of the higher one, leaving one column less.
C16_MergedAndRemoved ==
    /\ pc = "optColumns"
    /\ MergeCalls # {}
    /\ trace[Len(trace)].what = "removeColumn"
    /\ NumCols(dtran) = CategoriesBeforeMinimization - 1

\* ------------------------------------------------ the minimizer by itself
\* build has parsed rules without text and without status values; it goes
\* on to make a forward table of any of the shapes above and to call
\* optimizeTables.  A call that is being executed goes on until it returns.
InitMinimize ==
    /\ pc = "buildRanges"
    /\ status0 = ZERO_ERROR
    /\ status = ZERO_ERROR
    /\ parseErr = "zeroed"
    /\ rules = << >>
    /\ fRules = rules
    /\ fStrippedRules = [bogus |-> FALSE, text |-> rules]
    /\ rb = [m \in Members |-> IF m = "fForwardTable" THEN NULL ELSE LIVE]
    /\ uSetNodes = << >>
    /\ ruleStatusVals = << >>
    /\ numCategories = 0
    /\ rangeCat = << >>
    /\ dtran = << >>
    /\ duplPair = [first |-> 0, second |-> 0]
    /\ didSomething = FALSE
    /\ sz = NoSz
    /\ data = NoData
    /\ This = "unset"
    /\ ret = [build |-> "none", create |-> "none"]
    /\ trace = SubSeq(CallsBeforeOptimize, 1, 5)
    /\ dtor = [runs |-> 0, i |-> 0, nullDeref |-> FALSE]
    /\ firstRun = NoFirst

NextMinimize ==
    \/ BuildRangesUpTo(MaxCats + 1)
    \/ BuildNewTableBuilder
    \/ BuildForwardTableOf(MinimizerTables(numCategories))
    \/ OptBeginPass
    \/ OptColumns
    \/ OptStates
    \/ OptEndPass

\* Every step of these takes the program counter on or issues a call, so
\* the two stand for the whole state in the fairness condition.
position == <<pc, Len(trace)>>

SpecMinimize ==
    InitMinimize /\ [][NextMinimize]_vars /\ WF_position(NextMinimize)

\* What a pass can only lower.
Measure == numCategories + NumStates(dtran)

\* The passes that have ended: each ends with the one call of
\* removeDuplicateStates that removes nothing.
PassesEnded ==
    Cardinality({i \in Calls("removeDuplicateStates") : trace[i].arg = <<0>>})

\* The states removeDuplicateStates has removed so far.
RECURSIVE StatesRemovedIn(_)
StatesRemovedIn(calls) ==
    IF calls = {} THEN 0
    ELSE LET i == CHOOSE i \in calls : TRUE
         IN  trace[i].arg[1] + StatesRemovedIn(calls \ {i})

StatesRemoved == StatesRemovedIn(Calls("removeDuplicateStates"))

\* The tests of the two inner loops that optimizeTables has made.
LoopTests ==
    Cardinality(Calls("findDuplCharClassFrom"))
        + Cardinality(Calls("removeDuplicateStates"))

\* What a call of optimizeTables was given: the categories of the range
\* sets and the states of the table.
InputSize == Len(rangeCat) + NumStates(dtran) + StatesRemoved

\* One step of optimizeTables: the head of a pass clears the flag, the two
\* loops set it exactly when they lower a count and never raise one, and
\* the end of a pass begins another exactly when the flag is set.
TerminationStep ==
    /\ (pc = "optimizeTables") => (~didSomething' /\ Measure' = Measure)
    /\ (pc \in {"optColumns", "optStates"}) =>
          /\ numCategories' <= numCategories
          /\ NumStates(dtran') <= NumStates(dtran)
          /\ didSomething' = (didSomething \/ Measure' < Measure)
    /\ (pc = "optPassEnd") =>
          /\ Measure' = Measure
          /\ (pc' = "optimizeTables") = didSomething
          /\ (pc' = StageAfter("optimizeTables")) = ~didSomething

\* C17: optimizeTables terminates: a pass sets the changed flag exactly
\* when it lowers the category count or the state count, neither count ever
\* rises or falls below zero (for a table that was built: the category
\* count stays at or above the three reserved categories and the state
\* count above the stop state), the loop is repeated if and only if the
\* pass that just ended set the flag, and so the passes and the tests of
\* the inner loops are bounded by the size of the table that was given.
C17_Terminates ==
    /\ [][TerminationStep]_vars
    /\ [](Minimizing => numCategories >= 0 /\ NumStates(dtran) >= 0)
    /\ [](Minimizing /\ ~U_FAILURE(status) =>
            /\ numCategories >= Cardinality(ReservedCategories)
            /\ NumStates(dtran) > 1)
    /\ [](PassesEnded <= Cardinality(MergeCalls) + StatesRemoved + 1)
    /\ [](LoopTests <= 3 * InputSize + 2)

\* C17 witness: optimizeTables has returned after three passes, of which
\* two merged something.
C17_ReturnedAfterThreePasses ==
    /\ pc = StageAfter("optimizeTables")
    /\ PassesEnded >= 3
    /\ MergeCalls # {} /\ StateMerges # {}
\* ------------------------------------------------- columns before states
\* A pair of identical columns from category 3 on is left in the table.
DuplicateColumnsLeft ==
    DuplCharClasses(dtran, numCategories, FirstCharClass) # {}

LastCall == trace[Len(trace)]

\* The call that is about to be made is the first removeDuplicateStates
\* call of its pass.
FirstStatesCallOfPass ==
    pc = "optStates" /\ LastCall.what # "removeDuplicateStates"

\* C18 as stated: no state merge happens in a pass while a pair of
\* identical columns at or after category 3 exists: a removeDuplicateStates
\* call that is made on a table with such a pair removes nothing.
C18_NoStateMergeWhileDuplicateColumns ==
    (pc = "optStates" /\ DuplicateColumnsLeft) =>
        removeDuplicateStates(dtran).removed = 0

\* The order of the calls of a pass: a merge follows a search, a column is
\* removed right after its merge, and removeDuplicateStates is called after
\* a search or after a removeDuplicateStates call that removed states,
\* never right after a merge.
CallOrder ==
    \A i \in 2..Len(trace) :
        /\ trace[i].what = "mergeCategories" =>
              trace[i - 1].what = "findDuplCharClassFrom"
        /\ trace[i].what = "removeColumn" =>
              trace[i - 1].what = "mergeCategories"
        /\ trace[i].what = "removeDuplicateStates" =>
              \/ trace[i - 1].what = "findDuplCharClassFrom"
              \/ /\ trace[i - 1].what = "removeDuplicateStates"
                 /\ trace[i - 1].arg[1] > 0

\* The head of a pass restarts the search at category 3.
RestartsAtFirstCharClass ==
    (pc = "optimizeTables" /\ pc' = "optColumns") =>
        duplPair' = [first |-> FirstCharClass, second |-> 0]

\* C18, amended: in every pass the search for identical columns is
\* restarted at category 3 and run until no pair from category 3 on is
\* left before the first removeDuplicateStates call of the pass, and no
\* columns are merged between the removeDuplicateStates calls of a pass; a
\* pair of identical columns that exists at a later removeDuplicateStates
\* call of the pass was made by a state merge of that pass, which has set
\* the changed flag, so that another pass follows.
C18_ColumnsExhaustedBeforeStates ==
    /\ [](FirstStatesCallOfPass => ~DuplicateColumnsLeft)
    /\ [](pc = "optStates" /\ DuplicateColumnsLeft =>
            /\ LastCall.what = "removeDuplicateStates"
            /\ LastCall.arg[1] > 0
            /\ didSomething)
    /\ [](pc = "optPassEnd" /\ DuplicateColumnsLeft => didSomething)
    /\ [](CallOrder)
    /\ [][RestartsAtFirstCharClass]_vars

\* C18 witness: the first removeDuplicateStates call of a second pass is
\* about to be made, after the pass merged two columns that a state merge
\* of the first pass had made identical.
C18_SecondPassMergedColumns ==
    /\ FirstStatesCallOfPass
    /\ PassesEnded = 1
    /\ StateMerges # {}
    /\ \E i \in MergeCalls : \E j \in StateMerges : j < i
\* ------------------------------------------------ the matcher's creation
\* C19: when build succeeded and the constructor of the matcher set a
\* failure, the matcher is deleted, the status is the one the constructor
\* set and null is returned; when operator new yielded null on a success
\* status, the status is U_MEMORY_ALLOCATION_ERROR; and on every return
\* path of createRuleBasedBreakIterator the builder is destroyed exactly
\* once.
C19_MatcherFailureHandled ==
    /\ \A i \in Calls("This") :
          /\ U_FAILURE(trace[i].arg[2]) =>
                /\ This = DELETED
                /\ status = trace[i].arg[2]
                /\ ret.create = NULL
          /\ trace[i].arg[1] = NULL =>
                /\ status = MEMORY_ALLOCATION
                /\ ret.create = NULL
    /\ dtor.runs <= 1
    /\ pc \in {"done", "crashed"} => dtor.runs = 1
\* -------------------------------------------------- writes stay inside
\* The padded region of a section of the blob.
Region(what) ==
    CASE what = "header"       -> [from |-> 0, size |-> sz.headerSize]
      [] what = "fFTable"      -> [from |-> data.hdr.fFTable,
                                   size |-> sz.forwardTableSize]
      [] what = "fRTable"      -> [from |-> data.hdr.fRTable,
                                   size |-> sz.reverseTableSize]
      [] what = "fTrie"        -> [from |-> data.hdr.fTrie, size |-> sz.trieSize]
      [] what = "fStatusTable" -> [from |-> data.hdr.fStatusTable,
                                   size |-> sz.statusTableSize]
      [] OTHER                 -> [from |-> data.hdr.fRuleSource,
                                   size |-> sz.rulesSize]

Inside(w, from, size) == from <= w.off /\ w.off + w.len <= from + size

\* extract has stored the stripped text.
RuleSourceWritten == \E w \in data.written : w.what = "fRuleSource"

\* The bytes of the blob from offset off on, n of them.
BytesAt(off, n) == [i \in 1..n |-> data.bytes[off + i]]

\* C20: every write of flattenData lies inside the blob, [0, fLength), and
\* inside the padded region of the section it writes; the rule-source
\* section holds the stripped text and its terminator, which extract
\* stored inside that region; for every text length the text and the
\* terminator fit in rulesSize/2 code units, one less than the capacity
\* handed to extract; fRuleSourceLen does not count the terminator.
C20_WritesInsideSections ==
    /\ \A w \in data.written :
          /\ w.len >= 0
          /\ Inside(w, 0, data.hdr.fLength)
          /\ Inside(w, 0, Len(data.bytes))
          /\ Inside(w, Region(w.what).from, Region(w.what).size)
    /\ RuleSourceWritten =>
          LET text == fStrippedRules.text
          IN  /\ \A w \in data.written :
                    w.what = "fRuleSource" => w.len = 2 * (Len(text) + 1)
              /\ BytesAt(data.hdr.fRuleSource, 2 * (Len(text) + 1))
                    = UCharBytes(text) \o <<0, 0>>
              /\ data.hdr.fRuleSourceLen = 2 * Len(text)
              /\ Len(text) + 1 <= sz.rulesSize \div 2
              /\ ExtractCapacity(sz) = sz.rulesSize \div 2 + 1
    /\ \A n \in 0..MaxTextLen :
          LET s == PaddedSizes(0, 0, 0, 0, n)
          IN  /\ n + 1 <= s.rulesSize \div 2
              /\ n + 1 < ExtractCapacity(s)

\* C20 witness: build hands back a blob whose rule-source section holds a
\* text that is not empty and its terminator.
C20_TextStored ==
    /\ BlobMade
    /\ RuleSourceWritten
    /\ fStrippedRules.text # << >>
====
